---------------------------- MODULE Spec2Model ----------------------------
(***************************************************************************)
(* A model of main.py: the first-inning pitcher scoring pipeline           *)
(* (score_pitcher_stats, calculate_combined_probability, kelly_bet) and    *)
(* the interactive flows that drive it (main, analyze_single_game,         *)
(* analyze_multiple_games_sequentially).                                   *)
(*                                                                         *)
(* Numbers.  A decimal text such as "22.3" is the pair (223, 10).  Python  *)
(* turns it into an IEEE-754 double with float(); the comparisons of the   *)
(* scoring ladders are made on those doubles, so the doubles are modelled  *)
(* bit for bit (Double, AddInt, Ge, Lt below).  Percentages produced by    *)
(* calculate_combined_probability are multiples of 2.5 and are kept in     *)
(* tenths of a percent (300 is 30.0%).  The Kelly arithmetic is kept in    *)
(* exact rationals [num, den] with den > 0.                                *)
(***************************************************************************)
EXTENDS Integers, Sequences, FiniteSets, TLC

VARIABLES
    pc,                     \* the position of the program
    mode,                   \* "single" | "multi" | "none": the flow main() chose
    all_urls,               \* analyze_multiple_games_sequentially: the parsed URL list
    i,                      \* analyze_multiple_games_sequentially: the loop index
    year_stats,             \* the stats argument of score_pitcher_stats
    inning_splits,          \* the inning_splits argument of score_pitcher_stats
    scores,                 \* the value score_pitcher_stats returned
    pitcher1,               \* the flows' local pitcher1 (None or an analysis)
    pitcher2,               \* the flows' local pitcher2
    pitcher_data_for_game,  \* the list handed to display_summary and the combiner
    yrfi_prob,              \* the value calculate_combined_probability returned
    kelly,                  \* the locals of the running kelly_bet call
    out,                    \* what was printed for the game being analysed
    analysed,               \* the URLs handed to analyze_pitcher so far, in order
    exc                     \* the exception that left the program, or "none"

vars == <<pc, mode, all_urls, i, year_stats, inning_splits, scores, pitcher1,
          pitcher2, pitcher_data_for_game, yrfi_prob, kelly, out, analysed, exc>>

flowVars == <<mode, all_urls, i, pitcher1, pitcher2, kelly, out, analysed>>

None == [tag |-> "None"]

---------------------------------------------------------------------------
(* IEEE-754 doubles.  A non-negative double is [int, frac]: the integer    *)
(* part and the bits after the binary point.                               *)

\* The width of a double's significand.
Prec == 53

RECURSIVE BitLen(_)
BitLen(n) == IF n = 0 THEN 0 ELSE 1 + BitLen(n \div 2)

\* The binary expansion of r/den (r < den), bit by bit, until the
\* significand is full or the expansion ends.  sig counts significant bits.
RECURSIVE GenBits(_, _, _, _)
GenBits(r, den, sig, acc) ==
    IF r = 0 \/ sig >= Prec THEN [bits |-> acc, rem |-> r]
    ELSE LET b  == (2 * r) \div den
             r2 == (2 * r) % den
             s2 == IF sig > 0 \/ b = 1 THEN sig + 1 ELSE 0
         IN  GenBits(r2, den, s2, Append(acc, b))

\* bits + 1 in the last place: the new bits and the carry out of them.
RECURSIVE IncBits(_)
IncBits(bits) ==
    IF bits = <<>> THEN [bits |-> <<>>, carry |-> 1]
    ELSE LET n == Len(bits) IN
         IF bits[n] = 0 THEN [bits |-> [bits EXCEPT ![n] = 1], carry |-> 0]
         ELSE LET h == IncBits(SubSeq(bits, 1, n - 1))
              IN  [bits |-> Append(h.bits, 0), carry |-> h.carry]

\* Round to nearest, ties to even: guard is the first bit dropped, sticky
\* says whether anything lies beyond it.
LastBit(int, bits) == IF bits = <<>> THEN int % 2 ELSE bits[Len(bits)]
Carried(int, h) == [int |-> int + h.carry, frac |-> h.bits]
RoundNearestEven(int, bits, guard, sticky) ==
    IF guard = 1 /\ (sticky \/ LastBit(int, bits) = 1)
    THEN Carried(int, IncBits(bits))
    ELSE [int |-> int, frac |-> bits]

\* The quotient int + 0.bits with remainder g.rem, rounded.
RoundQuotient(int, den, g) ==
    RoundNearestEven(int, g.bits, (2 * g.rem) \div den, (2 * g.rem) % den # 0)

\* float("n/den" written as a decimal): the double nearest to n/den.
Double(n, den) ==
    RoundQuotient(n \div den, den,
                  GenBits(n % den, den, BitLen(n \div den), <<>>))

RECURSIVE LeadingZeros(_)
LeadingZeros(bits) ==
    IF bits = <<>> \/ bits[1] = 1 THEN 0 ELSE 1 + LeadingZeros(Tail(bits))

RECURSIVE AnyOne(_)
AnyOne(bits) == bits # <<>> /\ (bits[1] = 1 \/ AnyOne(Tail(bits)))

\* The double x + c for an integer c with x + c >= 0: the exact sum, rounded
\* back to Prec significant bits.
SigBits(int, frac) ==
    IF int > 0 THEN BitLen(int) + Len(frac) ELSE Len(frac) - LeadingZeros(frac)

\* int + 0.frac with its last `drop` bits rounded away.
DropBits(int, frac, drop) ==
    IF drop <= 0 THEN [int |-> int, frac |-> frac]
    ELSE RoundNearestEven(int, SubSeq(frac, 1, Len(frac) - drop),
                          frac[Len(frac) - drop + 1],
                          AnyOne(SubSeq(frac, Len(frac) - drop + 2, Len(frac))))

AddInt(x, c) ==
    DropBits(x.int + c, x.frac, SigBits(x.int + c, x.frac) - Prec)

RECURSIVE FracGe(_, _)
FracGe(a, b) ==
    IF b = <<>> THEN TRUE
    ELSE IF a = <<>> THEN ~AnyOne(b)
    ELSE IF a[1] # b[1] THEN a[1] > b[1]
    ELSE FracGe(Tail(a), Tail(b))

\* The doubles of the literals 1, 1.1, 1.25, 3, 3.5 and 4.5.
Lit1   == Double(1, 1)
Lit1_1 == Double(11, 10)
Lit1_25 == Double(125, 100)
Lit3   == Double(3, 1)
Lit3_5 == Double(35, 10)
Lit4_5 == Double(45, 10)

\* x >= y, x < y and x <= y on doubles.
Ge(x, y) == IF x.int # y.int THEN x.int > y.int ELSE FracGe(x.frac, y.frac)
Lt(x, y) == ~Ge(x, y)
Le(x, y) == Ge(y, x)

---------------------------------------------------------------------------
(* Raw field values.  A field of the scraped dictionaries is [tag, n]:     *)
(*   "num"    the text of a decimal, n/Den                                 *)
(*   "pct"    the same text followed by "%"                                *)
(*   "na"     the text "N/A"                                               *)
(*   "absent" the dictionary has no such key                               *)
(*   "none"   the value None                                               *)
(*   "float"  a Python float object (not a text) of value n/Den            *)
Field(tag, n) == [tag |-> tag, n |-> n]

(* Rates are written in tenths (Den = 10), ERA and WHIP in hundredths       *)
(* (Den = 100).                                                            *)

Raised(e) == [exc |-> e, val |-> None]
Value(v)  == [exc |-> "none", val |-> v]

\* float(stats[key].replace("%", ""))
RateOperand(stats, key) ==
    LET v == stats[key] IN
    CASE v.tag = "absent"            -> Raised("KeyError")
      [] v.tag \in {"none", "float"} -> Raised("AttributeError")
      [] v.tag = "na"                -> Raised("ValueError")
      [] OTHER                       -> Value(Double(v.n, 10))

\* float(inning_splits[key])
SplitOperand(splits, key) ==
    LET v == splits[key] IN
    CASE v.tag = "absent"        -> Raised("KeyError")
      [] v.tag = "none"          -> Raised("TypeError")
      [] v.tag \in {"na", "pct"} -> Raised("ValueError")
      [] OTHER                   -> Value(Double(v.n, 100))

\* except (ValueError, KeyError, AttributeError)
Caught == {"ValueError", "KeyError", "AttributeError"}

\* The outcome of one try block: the score it stored, or the exception
\* that escaped it.
Handled(e) == IF e \in Caught THEN [exc |-> "none", score |-> 0]
              ELSE [exc |-> e, score |-> 0]
Scored(s) == [exc |-> "none", score |-> s]

\* if k >= mlb + 5: 2  elif k >= mlb: 1  elif k >= mlb - 5: -1  else: -2
K_ladder(k_percent, mlb_k_percent) ==
    IF Ge(k_percent, AddInt(mlb_k_percent, 5)) THEN 2
    ELSE IF Ge(k_percent, mlb_k_percent) THEN 1
    ELSE IF Ge(k_percent, AddInt(mlb_k_percent, -5)) THEN -1
    ELSE -2

\* if bb <= mlb - 2: 2  elif bb <= mlb: 1  elif bb <= mlb + 2: -1  else: -2
BB_ladder(bb_percent, mlb_bb_percent) ==
    IF Le(bb_percent, AddInt(mlb_bb_percent, -2)) THEN 2
    ELSE IF Le(bb_percent, mlb_bb_percent) THEN 1
    ELSE IF Le(bb_percent, AddInt(mlb_bb_percent, 2)) THEN -1
    ELSE -2

WHIP_ladder(whip) ==
    IF Lt(whip, Lit1) THEN 2
    ELSE IF Lt(whip, Lit1_1) THEN 1
    ELSE IF Lt(whip, Lit1_25) THEN -1
    ELSE -2

ERA_ladder(era) ==
    IF Lt(era, Lit3) THEN 2
    ELSE IF Lt(era, Lit3_5) THEN 1
    ELSE IF Lt(era, Lit4_5) THEN -1
    ELSE -2

\* A try block: the operands are evaluated in order, the first exception
\* goes to the handler, otherwise the ladder scores.
K_block(k, m) ==
    IF k.exc # "none" THEN Handled(k.exc)
    ELSE IF m.exc # "none" THEN Handled(m.exc)
    ELSE Scored(K_ladder(k.val, m.val))

BB_block(b, m) ==
    IF b.exc # "none" THEN Handled(b.exc)
    ELSE IF m.exc # "none" THEN Handled(m.exc)
    ELSE Scored(BB_ladder(b.val, m.val))

WHIP_block(w) ==
    IF w.exc # "none" THEN Handled(w.exc) ELSE Scored(WHIP_ladder(w.val))

ERA_block(e) ==
    IF e.exc # "none" THEN Handled(e.exc) ELSE Scored(ERA_ladder(e.val))

K_score(stats) ==
    K_block(RateOperand(stats, "K%"), RateOperand(stats, "MLB_K%"))

BB_score(stats) ==
    BB_block(RateOperand(stats, "BB%"), RateOperand(stats, "MLB_BB%"))

WHIP_score(splits) == WHIP_block(SplitOperand(splits, "1st_Inning_WHIP"))

ERA_score(splits) == ERA_block(SplitOperand(splits, "1st_Inning_ERA"))

Min(a, b) == IF a < b THEN a ELSE b
Max(a, b) == IF a > b THEN a ELSE b
Abs(a) == IF a < 0 THEN -a ELSE a

\* A variant with the sign of the slope slipped on the positive side; the
\* properties of the run percentage must tell it from the code.
run_percentage_sign_slip(total_score) ==
    Max(10, Min(90, 50 + (Abs(total_score) * 5)))

\* run_percentage and its clamp
first_inning_run_percentage(total_score) ==
    LET run_percentage == IF total_score > 0 THEN 50 - (total_score * 5)
                          ELSE 50 + (Abs(total_score) * 5)
    IN  Max(10, Min(90, run_percentage))

\* total_score = sum(...) and the dictionary returned
ScoreSet(k, b, w, e, total_score) ==
    [K_score |-> k, BB_score |-> b, WHIP_score |-> w, ERA_score |-> e,
     total_score |-> total_score,
     first_inning_run_percentage |-> first_inning_run_percentage(total_score)]

\* The four try blocks run in the order K%, BB%, WHIP, ERA; an exception no
\* block catches leaves the function at once.
Blocks(k, b, w, e) ==
    IF k.exc # "none" THEN Raised(k.exc)
    ELSE IF b.exc # "none" THEN Raised(b.exc)
    ELSE IF w.exc # "none" THEN Raised(w.exc)
    ELSE IF e.exc # "none" THEN Raised(e.exc)
    ELSE Value(ScoreSet(k.score, b.score, w.score, e.score,
                        k.score + b.score + w.score + e.score))

\* score_pitcher_stats(stats, inning_splits): [exc, val]
score_pitcher_stats(stats, splits) ==
    Blocks(K_score(stats), BB_score(stats), WHIP_score(splits), ERA_score(splits))

---------------------------------------------------------------------------
(* calculate_combined_probability.  A list entry is None or a dictionary   *)
(* (a record); the probability is kept in tenths of a percent.             *)

Float(tenths) == [tag |-> "float", tenths |-> tenths]

\* p and 'scores' in p
HasScores(p) == p # None /\ "scores" \in DOMAIN p

\* A variant that forgets the lower clamp max(5, ...).
combined_prob_no_floor(total_score) ==
    Min(950, IF total_score > 0 THEN 400 - (total_score * 25)
             ELSE 400 + (Abs(total_score) * 25))

\* combined_prob and its clamp, in tenths of a percent
combined_prob(total_score) ==
    Max(50, Min(950, IF total_score > 0 THEN 400 - (total_score * 25)
                     ELSE 400 + (Abs(total_score) * 25)))

calculate_combined_probability(data) ==
    IF Len(data) # 2 \/ ~(\A n \in 1..Len(data) : HasScores(data[n]))
    THEN None
    ELSE Float(combined_prob(data[1].scores.total_score
                             + data[2].scores.total_score))

---------------------------------------------------------------------------
(* The function harnesses: score_pitcher_stats and                         *)
(* calculate_combined_probability called on their own, on every input of   *)
(* a bounded set.                                                          *)

\* The longest list handed to calculate_combined_probability.
MaxList == 3

StatKeys == {"K%", "BB%", "MLB_K%", "MLB_BB%"}
SplitKeys == {"1st_Inning_ERA", "1st_Inning_WHIP"}

\* A strong pitcher: K% 27.0 against 22.0, BB% 6.0 against 8.0.
BaseStats == [x \in StatKeys |->
                CASE x = "K%" -> Field("pct", 270) [] x = "MLB_K%" -> Field("pct", 220)
                  [] x = "BB%" -> Field("pct", 60) [] OTHER -> Field("pct", 80)]
BaseSplits == [x \in SplitKeys |->
                IF x = "1st_Inning_ERA" THEN Field("num", 280) ELSE Field("num", 95)]

\* Every combination of kinds over the six fields.
KindInputs ==
    {[stats |-> [x \in StatKeys |-> IF ks[x] = "pct" THEN BaseStats[x]
                                    ELSE Field(ks[x], 0)],
      splits |-> [x \in SplitKeys |-> IF kp[x] = "num" THEN BaseSplits[x]
                                      ELSE Field(kp[x], 0)]] :
        ks \in [StatKeys -> {"pct", "na", "absent", "none"}],
        kp \in [SplitKeys -> {"num", "na", "absent", "none"}]}

\* One field of another form, the rest a strong pitcher's: a rate without
\* its "%", a rate or a split given as a float object, a split with a "%".
OddInputs ==
    {[stats |-> [BaseStats EXCEPT ![x] = Field(t, BaseStats[x].n)],
      splits |-> BaseSplits] : x \in StatKeys, t \in {"num", "float"}}
    \cup {[stats |-> BaseStats,
           splits |-> [BaseSplits EXCEPT ![x] = Field(t, BaseSplits[x].n)]] :
            x \in SplitKeys, t \in {"pct", "float"}}

\* A weak pitcher's splits: ERA 4.50, WHIP 1.25.
WorstSplits == [x \in SplitKeys |->
                IF x = "1st_Inning_ERA" THEN Field("num", 450) ELSE Field("num", 125)]
WorstStats == [x \in StatKeys |->
                CASE x = "K%" -> Field("pct", 150) [] x = "MLB_K%" -> Field("pct", 220)
                  [] x = "BB%" -> Field("pct", 110) [] OTHER -> Field("pct", 80)]

\* All six fields valid.  The rates on and next to every threshold of
\* their ladders (the league rates are 20.1 and 22.0 for K%, 8.0 and 8.2
\* for BB%) with a strong and a weak pitcher's splits; ERA and WHIP on and
\* next to every threshold of theirs with a strong and a weak pitcher's
\* rates.
ValueInputs ==
    {[stats |-> [x \in StatKeys |->
                    CASE x = "K%" -> Field("pct", mk + dk)
                      [] x = "MLB_K%" -> Field("pct", mk)
                      [] x = "BB%" -> Field("pct", mb + db)
                      [] OTHER -> Field("pct", mb)],
      splits |-> sp] :
        mk \in {201, 220}, dk \in {-51, -50, -1, 0, 49, 50},
        mb \in {80, 82}, db \in {-21, -20, -19, 0, 1, 20, 21},
        sp \in {BaseSplits, WorstSplits}}
    \cup
    {[stats |-> st,
      splits |-> [x \in SplitKeys |->
                    IF x = "1st_Inning_ERA" THEN Field("num", e)
                    ELSE Field("num", w)]] :
        st \in {BaseStats, WorstStats},
        e \in {299, 300, 349, 350, 449, 450},
        w \in {99, 100, 109, 110, 124, 125}}

ScoreInputs == KindInputs \cup OddInputs \cup ValueInputs

\* A dictionary that has no 'scores' key.
NoScores == [tag |-> "dict"]

Analysis(total) == [tag |-> "dict", scores |-> [total_score |-> total]]

RECURSIVE SeqsUpTo(_, _)
SeqsUpTo(S, n) ==
    IF n = 0 THEN {<<>>}
    ELSE {<<>>} \cup {<<x>> \o s : x \in S, s \in SeqsUpTo(S, n - 1)}

CombineInputs ==
    SeqsUpTo({None, NoScores} \cup {Analysis(t) : t \in -8..8}, MaxList)

Idle ==
    /\ mode = "none" /\ all_urls = <<>> /\ i = 0
    /\ pitcher1 = None /\ pitcher2 = None
    /\ kelly = None /\ out = <<>> /\ analysed = <<>>

InitScore ==
    /\ Idle
    /\ pc = "score_pitcher_stats"
    /\ \E in \in ScoreInputs : year_stats = in.stats /\ inning_splits = in.splits
    /\ scores = None
    /\ pitcher_data_for_game = <<>>
    /\ yrfi_prob = None
    /\ exc = "none"

\* scores = score_pitcher_stats(year_stats, inning_splits)
CallScorePitcherStats ==
    /\ pc = "score_pitcher_stats"
    /\ \E r \in {score_pitcher_stats(year_stats, inning_splits)} :
       /\ scores' = r.val
       /\ exc' = r.exc
       /\ pc' = IF r.exc = "none" THEN "score_returned" ELSE "score_raised"
    /\ UNCHANGED <<year_stats, inning_splits, pitcher_data_for_game, yrfi_prob>>
    /\ UNCHANGED flowVars

SpecScore == InitScore /\ [][CallScorePitcherStats]_vars

InitCombine ==
    /\ Idle
    /\ pc = "calculate_combined_probability"
    /\ year_stats = None /\ inning_splits = None /\ scores = None
    /\ pitcher_data_for_game \in CombineInputs
    /\ yrfi_prob = None
    /\ exc = "none"

\* yrfi_prob = calculate_combined_probability(pitcher_data_for_game)
CallCalculateCombinedProbability ==
    /\ pc = "calculate_combined_probability"
    /\ yrfi_prob' = calculate_combined_probability(pitcher_data_for_game)
    /\ pc' = "combine_returned"
    /\ UNCHANGED <<year_stats, inning_splits, scores, pitcher_data_for_game, exc>>
    /\ UNCHANGED flowVars

SpecCombine == InitCombine /\ [][CallCalculateCombinedProbability]_vars

---------------------------------------------------------------------------
(* Exact rationals [num, den], den > 0, in lowest terms: the numbers of    *)
(* kelly_bet.                                                              *)

RECURSIVE GCD(_, _)
GCD(a, b) == IF b = 0 THEN a ELSE GCD(b, a % b)

Sign(d) == IF d < 0 THEN -1 ELSE 1
Reduced(n, d, g) == [num |-> (Sign(d) * n) \div g, den |-> (Sign(d) * d) \div g]
Q(n, d) == Reduced(n, d, GCD(Abs(n), Abs(d)))

QInt(n) == Q(n, 1)
QAdd(a, b) == Q(a.num * b.den + b.num * a.den, a.den * b.den)
QSub(a, b) == Q(a.num * b.den - b.num * a.den, a.den * b.den)
QMul(a, b) == Q(a.num * b.num, a.den * b.den)
QAbs(a) == [num |-> Abs(a.num), den |-> a.den]
QLe(a, b) == a.num * b.den <= b.num * a.den
QLt(a, b) == a.num * b.den < b.num * a.den

\* a / b as Python divides floats: a zero divisor raises.
QDiv(a, b) == IF b.num = 0 THEN Raised("ZeroDivisionError")
              ELSE Value(Q(a.num * b.den, a.den * b.num))

---------------------------------------------------------------------------
(* kelly_bet.  yrfi_probability_percent is a Float (tenths of a percent).  *)
(* What the user types at a float(input(...)) prompt is [tag, n]: "num",   *)
(* the text of the integer n, or "bad", a text float() refuses.            *)

Percent(p) == Q(p.tenths, 10)

\* 1 + q, unless the division that yields q raised
OnePlus(q) == IF q.exc # "none" THEN q ELSE Value(QAdd(QInt(1), q.val))

\* if american_odds_yrfi > 0: 1 + odds / 100  else: 1 + 100 / abs(odds)
decimal_odds_yrfi(american_odds) ==
    IF american_odds.num > 0
    THEN OnePlus(QDiv(american_odds, QInt(100)))
    ELSE OnePlus(QDiv(QInt(100), QAbs(american_odds)))

\* model_yrfi_prob_decimal = yrfi_probability_percent / 100
model_yrfi_prob_decimal(percent) == QDiv(Percent(percent), QInt(100)).val

\* A variant that forgets to divide by the net odds.
kelly_fraction_undivided(decimal_odds, model_prob) ==
    Value(QSub(QMul(decimal_odds, model_prob), QInt(1)))

\* (decimal_odds_yrfi * model_yrfi_prob_decimal - 1) / (decimal_odds_yrfi - 1)
kelly_fraction_yrfi(decimal_odds, model_prob) ==
    QDiv(QSub(QMul(decimal_odds, model_prob), QInt(1)),
         QSub(decimal_odds, QInt(1)))

decimal_odds_nrfi(american_odds) ==
    IF american_odds.num > 0
    THEN OnePlus(QDiv(american_odds, QInt(100)))
    ELSE OnePlus(QDiv(QInt(100), QAbs(american_odds)))

\* A variant that sizes the NRFI side with the YRFI probability.
nrfi_prob_not_complemented(percent) == QDiv(Percent(percent), QInt(100)).val

\* model_nrfi_prob_decimal = (100 - yrfi_probability_percent) / 100
model_nrfi_prob_decimal(percent) ==
    QDiv(QSub(QInt(100), Percent(percent)), QInt(100)).val

\* (decimal_odds_nrfi * model_nrfi_prob_decimal - 1) / (decimal_odds_nrfi - 1)
kelly_fraction_nrfi(decimal_odds, model_prob) ==
    QDiv(QSub(QMul(decimal_odds, model_prob), QInt(1)),
         QSub(decimal_odds, QInt(1)))

\* What is typed at the odds prompts and at the bankroll prompt.
Bad == [tag |-> "bad", n |-> 0]
Num(n) == [tag |-> "num", n |-> n]
OddsTexts == {Bad} \cup {Num(n) : n \in {-1000, -150, -110, 0, 100, 120, 150, 1000}}
BankrollTexts == {Bad} \cup {Num(n) : n \in {-100, 0, 100}}

\* The frame of a kelly_bet call: its argument and its locals (None until
\* assigned).
NewFrame(percent) ==
    [yrfi_probability_percent |-> percent,
     american_odds_yrfi |-> None, decimal_odds_yrfi |-> None,
     bankroll |-> None, kelly_fraction_yrfi |-> None,
     bet_amount_yrfi |-> None, nrfi_choice |-> "",
     american_odds_nrfi |-> None, decimal_odds_nrfi |-> None,
     kelly_fraction_nrfi |-> None, bet_amount_nrfi |-> None]

Ev(name, arg) == [ev |-> name, arg |-> arg]
Printed(name) == Append(out, Ev(name, 0))

\* An exception nothing catches: main's only handler is for ValueError.
Crash(e) == pc' = "crashed" /\ exc' = e

\* american_odds_yrfi = float(input(...)) and the decimal odds
KellyYrfiOdds ==
    /\ pc = "kelly_yrfi_odds"
    /\ \E txt \in OddsTexts :
        IF txt.tag = "bad"
        THEN /\ out' = Printed("invalid_yrfi_odds")
             /\ pc' = "kelly_done"
             /\ UNCHANGED <<kelly, exc>>
        ELSE \E d \in {decimal_odds_yrfi(QInt(txt.n))} :
             /\ kelly' = [kelly EXCEPT !.american_odds_yrfi = QInt(txt.n),
                                       !.decimal_odds_yrfi = d.val]
             /\ IF d.exc # "none" THEN Crash(d.exc)
                ELSE pc' = "kelly_bankroll" /\ UNCHANGED exc
             /\ UNCHANGED out
    /\ UNCHANGED <<mode, all_urls, i, year_stats, inning_splits, scores, pitcher1,
                   pitcher2, pitcher_data_for_game, yrfi_prob, analysed>>

\* bankroll = float(input(...)), the YRFI fraction and its branch
KellyBankroll ==
    /\ pc = "kelly_bankroll"
    /\ \E txt \in BankrollTexts :
        IF txt.tag = "bad"
        THEN /\ out' = Printed("invalid_bankroll")
             /\ pc' = "kelly_done"
             /\ UNCHANGED <<kelly, exc>>
        ELSE \E f \in {kelly_fraction_yrfi(
                          kelly.decimal_odds_yrfi,
                          model_yrfi_prob_decimal(kelly.yrfi_probability_percent))} :
                 IF f.exc # "none"
                 THEN /\ kelly' = [kelly EXCEPT !.bankroll = QInt(txt.n)]
                      /\ Crash(f.exc)
                      /\ UNCHANGED out
                 ELSE IF QLe(f.val, QInt(0))
                 THEN /\ kelly' = [kelly EXCEPT !.bankroll = QInt(txt.n),
                                                !.kelly_fraction_yrfi = f.val]
                      /\ out' = Printed("no_edge_yrfi")
                      /\ pc' = "kelly_nrfi_choice"
                      /\ UNCHANGED exc
                 ELSE /\ kelly' = [kelly EXCEPT
                                     !.bankroll = QInt(txt.n),
                                     !.kelly_fraction_yrfi = f.val,
                                     !.bet_amount_yrfi = QMul(f.val, QInt(txt.n))]
                      /\ out' = Printed("rec_yrfi")
                      /\ pc' = "kelly_done"
                      /\ UNCHANGED exc
    /\ UNCHANGED <<mode, all_urls, i, year_stats, inning_splits, scores, pitcher1,
                   pitcher2, pitcher_data_for_game, yrfi_prob, analysed>>

\* nrfi_choice = input("Would you like to evaluate NRFI odds? (y/n): ")
KellyNrfiChoice ==
    /\ pc = "kelly_nrfi_choice"
    /\ \E c \in {"y", "n"} :
        /\ kelly' = [kelly EXCEPT !.nrfi_choice = c]
        /\ IF c = "y" THEN pc' = "kelly_nrfi_odds" /\ UNCHANGED out
           ELSE pc' = "kelly_done" /\ out' = Printed("no_bet")
    /\ UNCHANGED <<mode, all_urls, i, year_stats, inning_splits, scores, pitcher1,
                   pitcher2, pitcher_data_for_game, yrfi_prob, analysed, exc>>

\* american_odds_nrfi = float(input(...)), the NRFI fraction and its branch
KellyNrfiOdds ==
    /\ pc = "kelly_nrfi_odds"
    /\ \E txt \in OddsTexts :
        IF txt.tag = "bad"
        THEN /\ out' = Printed("invalid_nrfi_odds")
             /\ pc' = "kelly_done"
             /\ UNCHANGED <<kelly, exc>>
        ELSE \E d \in {decimal_odds_nrfi(QInt(txt.n))} :
             \E f \in {IF d.exc # "none" THEN d
                       ELSE kelly_fraction_nrfi(
                              d.val,
                              model_nrfi_prob_decimal(kelly.yrfi_probability_percent))} :
                 IF f.exc # "none"
                 THEN /\ kelly' = [kelly EXCEPT !.american_odds_nrfi = QInt(txt.n),
                                                !.decimal_odds_nrfi = d.val]
                      /\ Crash(f.exc)
                      /\ UNCHANGED out
                 ELSE /\ kelly' = [kelly EXCEPT
                                     !.american_odds_nrfi = QInt(txt.n),
                                     !.decimal_odds_nrfi = d.val,
                                     !.kelly_fraction_nrfi = f.val,
                                     !.bet_amount_nrfi =
                                         IF QLe(f.val, QInt(0)) THEN None
                                         ELSE QMul(f.val, kelly.bankroll)]
                      /\ out' = Printed(IF QLe(f.val, QInt(0)) THEN "no_bet"
                                      ELSE "rec_nrfi")
                      /\ pc' = "kelly_done"
                      /\ UNCHANGED exc
    /\ UNCHANGED <<mode, all_urls, i, year_stats, inning_splits, scores, pitcher1,
                   pitcher2, pitcher_data_for_game, yrfi_prob, analysed>>

\* kelly_bet returns to its caller: analyze_single_game ends, the loop of
\* analyze_multiple_games_sequentially goes on to the end of the game.
KellyReturn ==
    /\ pc = "kelly_done"
    /\ kelly' = None
    /\ pc' = IF mode = "single" THEN "exit" ELSE "multi_end_game"
    /\ UNCHANGED <<mode, all_urls, i, year_stats, inning_splits, scores, pitcher1,
                   pitcher2, pitcher_data_for_game, yrfi_prob, out, analysed, exc>>

\* kelly_bet(yrfi_probability_percent) is entered: without a probability it
\* prints and returns at once.
EnterKellyBet(percent, printed) ==
    IF percent = None
    THEN /\ out' = Append(printed, Ev("no_probability", 0))
         /\ kelly' = NewFrame(percent)
         /\ pc' = "kelly_done"
    ELSE /\ out' = printed
         /\ kelly' = NewFrame(percent)
         /\ pc' = "kelly_yrfi_odds"

---------------------------------------------------------------------------
(* analyze_pitcher and the two fetches.  A fetch yields None (the page     *)
(* could not be retrieved or parsed) or a dictionary of texts.             *)

\* The most games entered at the prompt of
\* analyze_multiple_games_sequentially.
MaxGames == 2

\* The most comma-separated items typed at that prompt.
MaxUrls == 2 * MaxGames + 1

\* A row whose cells and league row are missing: every rate is "N/A".
NAStats == [x \in StatKeys |-> Field("na", 0)]

get_pitching_stats == {None, BaseStats, WorstStats, NAStats}
get_inning_splits == {None, BaseSplits, WorstSplits}

\* The dictionary analyze_pitcher returns, unless score_pitcher_stats raised
PitcherAnalysis(url, fetched_stats, fetched_splits, s) ==
    IF s.exc # "none" THEN Raised(s.exc)
    ELSE Value([tag |-> "dict", player_name |-> url,
                stats |-> fetched_stats, inning_splits |-> fetched_splits,
                scores |-> s.val])

analyze_pitcher(url, fetched_stats, fetched_splits) ==
    IF fetched_stats = None THEN Value(None)
    ELSE IF fetched_splits = None THEN Value(None)
    ELSE PitcherAnalysis(url, fetched_stats, fetched_splits,
                         score_pitcher_stats(fetched_stats, fetched_splits))

\* display_summary: one summary for every entry that is not None.
RECURSIVE display_summary(_)
display_summary(data) ==
    IF data = <<>> THEN <<>>
    ELSE IF data[1] = None THEN display_summary(Tail(data))
    ELSE <<Ev("summary", data[1].player_name)>> \o display_summary(Tail(data))

\* A variant that appends without the test `if pitcherN:`.
AppendAlways(data, pitcher) == Append(data, pitcher)

\* if pitcherN: pitcher_data_for_game.append(pitcherN)
AppendIf(data, pitcher) == IF pitcher # None THEN Append(data, pitcher) ELSE data

\* The items typed at the URL prompt, split at the commas: a URL or blank.
RECURSIVE Strip(_)
Strip(items) ==
    IF items = <<>> THEN <<>>
    ELSE IF items[1] = "" THEN Strip(Tail(items))
    ELSE <<items[1]>> \o Strip(Tail(items))

\* The URLs are told apart by their place in the list: "url" k is k.
Numbered(urls) == [k \in 1..Len(urls) |-> k]

---------------------------------------------------------------------------
(* main, analyze_single_game, analyze_multiple_games_sequentially          *)

Init ==
    /\ pc = "main"
    /\ mode = "none"
    /\ all_urls = <<>>
    /\ i = 0
    /\ year_stats = None /\ inning_splits = None /\ scores = None
    /\ pitcher1 = None /\ pitcher2 = None
    /\ pitcher_data_for_game = <<>>
    /\ yrfi_prob = None
    /\ kelly = None
    /\ out = <<>>
    /\ analysed = <<>>
    /\ exc = "none"

harnessVars == <<year_stats, inning_splits, scores>>

\* main: the menu, and for choice 2 the year prompt.
Main ==
    /\ pc = "main"
    /\ \E choice \in {"1", "2", "q", "other"}, year \in {"num", "bad"} :
        CASE choice = "1" -> mode' = "single" /\ pc' = "single_year" /\ out' = out
          [] choice = "2" /\ year = "num" ->
                mode' = "multi" /\ pc' = "multi_urls" /\ out' = out
          [] choice = "2" /\ year = "bad" ->
                mode' = mode /\ pc' = "exit" /\ out' = Printed("invalid_year")
          [] choice = "q" -> mode' = mode /\ pc' = "exit" /\ out' = out
          [] OTHER -> mode' = mode /\ pc' = "main" /\ out' = out
    /\ UNCHANGED <<all_urls, i, pitcher1, pitcher2, pitcher_data_for_game,
                   yrfi_prob, kelly, analysed, exc>>
    /\ UNCHANGED harnessVars

\* analyze_single_game: the first URL and the year are typed.
SingleInputYear ==
    /\ pc = "single_year"
    /\ \E year \in {"num", "bad"} :
        IF year = "bad" THEN pc' = "exit" /\ out' = Printed("invalid_year")
        ELSE pc' = "single_p1" /\ out' = out
    /\ pitcher_data_for_game' = <<>>
    /\ UNCHANGED <<mode, all_urls, i, pitcher1, pitcher2, yrfi_prob, kelly,
                   analysed, exc>>
    /\ UNCHANGED harnessVars

\* pitcherN = analyze_pitcher(url, year) and the append that follows it,
\* for the pitcher at position pos of the list `first` starts.
AnalyzeStep(at, next, url, first) ==
    /\ pc = at
    /\ \E fs \in get_pitching_stats, fp \in get_inning_splits :
        \E r \in {analyze_pitcher(url, fs, fp)} :
        /\ IF r.exc # "none" THEN Crash(r.exc) ELSE pc' = next /\ UNCHANGED exc
        /\ IF first THEN pitcher1' = r.val /\ UNCHANGED pitcher2
           ELSE pitcher2' = r.val /\ UNCHANGED pitcher1
        /\ pitcher_data_for_game' =
              AppendIf(IF first THEN <<>> ELSE pitcher_data_for_game, r.val)
    /\ analysed' = Append(analysed, url)
    /\ UNCHANGED <<mode, all_urls, i, yrfi_prob, kelly, out>>
    /\ UNCHANGED harnessVars

SingleAnalyzePitcher1 == AnalyzeStep("single_p1", "single_p2", 1, TRUE)
SingleAnalyzePitcher2 == AnalyzeStep("single_p2", "single_report", 2, FALSE)

\* analyze_single_game: the summary, the matchup and the call of kelly_bet.
SingleReport ==
    /\ pc = "single_report"
    /\ IF pitcher_data_for_game # <<>>
       THEN \E shown \in {out \o display_summary(pitcher_data_for_game)} :
            IF Len(pitcher_data_for_game) = 2
            THEN \E prob \in {calculate_combined_probability(pitcher_data_for_game)} :
                 /\ yrfi_prob' = prob
                 /\ IF prob # None
                    THEN EnterKellyBet(prob, Append(shown, Ev("matchup", 0)))
                    ELSE /\ out' = Append(shown, Ev("no_combined", 0))
                         /\ pc' = "exit"
                         /\ UNCHANGED kelly
            ELSE /\ out' = Append(shown, Ev("one_pitcher_only", 0))
                 /\ pc' = "exit"
                 /\ UNCHANGED <<yrfi_prob, kelly>>
       ELSE /\ out' = Printed("no_data")
            /\ pc' = "exit"
            /\ UNCHANGED <<yrfi_prob, kelly>>
    /\ UNCHANGED <<mode, all_urls, i, pitcher1, pitcher2, pitcher_data_for_game,
                   analysed, exc>>
    /\ UNCHANGED harnessVars

\* analyze_multiple_games_sequentially: the URL list is typed and checked.
MultiInputUrls ==
    /\ pc = "multi_urls"
    /\ \E urls_string \in SeqsUpTo({"url", ""}, MaxUrls) :
        \E urls \in {Numbered(Strip(urls_string))} :
        /\ all_urls' = urls
        /\ IF urls = <<>> THEN pc' = "exit" /\ out' = Printed("no_urls")
           ELSE IF Len(urls) % 2 # 0 THEN pc' = "exit" /\ out' = Printed("odd_urls")
           ELSE pc' = "multi_p1" /\ out' = out
    /\ i' = 0
    /\ UNCHANGED <<mode, pitcher1, pitcher2, pitcher_data_for_game, yrfi_prob,
                   kelly, analysed, exc>>
    /\ UNCHANGED harnessVars

\* A variant that pairs a game's first URL with itself.
url2_same_as_url1 == all_urls[i * 2 + 1]

\* url1 = all_urls[i * 2], url2 = all_urls[i * 2 + 1] (Python counts from 0)
url1 == all_urls[i * 2 + 1]
url2 == all_urls[i * 2 + 1 + 1]

MultiAnalyzePitcher1 == AnalyzeStep("multi_p1", "multi_p2", url1, TRUE)
MultiAnalyzePitcher2 == AnalyzeStep("multi_p2", "multi_report", url2, FALSE)

\* The summary and the matchup of game i + 1.
MultiReport ==
    /\ pc = "multi_report"
    /\ IF pitcher_data_for_game # <<>>
       THEN \E shown \in {out \o display_summary(pitcher_data_for_game)} :
            IF Len(pitcher_data_for_game) = 2
            THEN \E prob \in {calculate_combined_probability(pitcher_data_for_game)} :
                 /\ yrfi_prob' = prob
                 /\ IF prob # None
                    THEN /\ out' = Append(shown, Ev("matchup", 0))
                         /\ pc' = "multi_kelly_choice"
                    ELSE /\ out' = Append(shown, Ev("no_combined", 0))
                         /\ pc' = "multi_end_game"
            ELSE /\ out' = Append(shown, Ev("one_pitcher_only", 0))
                 /\ pc' = "multi_end_game"
                 /\ UNCHANGED yrfi_prob
       ELSE /\ out' = Printed("no_data")
            /\ pc' = "multi_end_game"
            /\ UNCHANGED yrfi_prob
    /\ UNCHANGED <<mode, all_urls, i, pitcher1, pitcher2, pitcher_data_for_game,
                   kelly, analysed, exc>>
    /\ UNCHANGED harnessVars

\* kelly_choice = input("Calculate Kelly Bet for Game ...? (y/n): ")
MultiKellyChoice ==
    /\ pc = "multi_kelly_choice"
    /\ \E kelly_choice \in {"y", "n"} :
        IF kelly_choice = "y" THEN EnterKellyBet(yrfi_prob, out)
        ELSE pc' = "multi_end_game" /\ UNCHANGED <<kelly, out>>
    /\ UNCHANGED <<mode, all_urls, i, pitcher1, pitcher2, pitcher_data_for_game,
                   yrfi_prob, analysed, exc>>
    /\ UNCHANGED harnessVars

\* The end of the loop body: the next game, or the return to main after
\* the last one.  At the top of the next pass pitcher_data_for_game is
\* emptied; pitcher1, pitcher2 and yrfi_prob are assigned before they are
\* read again, and out starts anew for the next game.
MultiEndGame ==
    /\ pc = "multi_end_game"
    /\ IF i + 1 < Len(all_urls) \div 2
       THEN /\ i' = i + 1
            /\ pc' = "multi_p1"
            /\ pitcher_data_for_game' = <<>>
            /\ pitcher1' = None /\ pitcher2' = None /\ yrfi_prob' = None
            /\ out' = <<>>
       ELSE /\ pc' = "exit"
            /\ UNCHANGED <<i, pitcher_data_for_game, pitcher1, pitcher2,
                           yrfi_prob, out>>
    /\ UNCHANGED <<mode, all_urls, kelly, analysed, exc>>
    /\ UNCHANGED harnessVars

Next ==
    \/ Main
    \/ SingleInputYear
    \/ SingleAnalyzePitcher1
    \/ SingleAnalyzePitcher2
    \/ SingleReport
    \/ MultiInputUrls
    \/ MultiAnalyzePitcher1
    \/ MultiAnalyzePitcher2
    \/ MultiReport
    \/ MultiKellyChoice
    \/ MultiEndGame
    \/ KellyYrfiOdds
    \/ KellyBankroll
    \/ KellyNrfiChoice
    \/ KellyNrfiOdds
    \/ KellyReturn

Spec == Init /\ [][Next]_vars

---------------------------------------------------------------------------
(* The properties.  Those of score_pitcher_stats are checked under         *)
(* SpecScore, those of calculate_combined_probability under SpecCombine,   *)
(* those of the interactive flows and of kelly_bet under Spec.             *)

Emitted(name) == \E n \in 1..Len(out) : out[n].ev = name
Count(name) == Cardinality({n \in 1..Len(out) : out[n].ev = name})

\* ---- score_pitcher_stats ------------------------------------------------

\* A rate is usable when it is a text holding a number, with or without "%";
\* a split when it is a text holding a number.
RateUsable(v) == v.tag \in {"pct", "num"}
SplitUsable(v) == v.tag = "num"
KUsable == RateUsable(year_stats["K%"]) /\ RateUsable(year_stats["MLB_K%"])
BBUsable == RateUsable(year_stats["BB%"]) /\ RateUsable(year_stats["MLB_BB%"])
WHIPUsable == SplitUsable(inning_splits["1st_Inning_WHIP"])
ERAUsable == SplitUsable(inning_splits["1st_Inning_ERA"])

\* The same input with every unusable field replaced by a usable one.
Repaired ==
    score_pitcher_stats(
        [x \in StatKeys |-> IF RateUsable(year_stats[x]) THEN year_stats[x]
                            ELSE BaseStats[x]],
        [x \in SplitKeys |-> IF SplitUsable(inning_splits[x]) THEN inning_splits[x]
                             ELSE BaseSplits[x]]).val

\* C1: whatever each of the six raw fields is (a parseable number, a
\* non-numeric text, a missing key, a value of the wrong type), the call
\* returns normally, a metric with an unusable operand scores 0 and a
\* metric whose operands are usable scores what it scores when every other
\* field is usable too.
C1_EveryFieldDegradesAlone ==
    pc \in {"score_returned", "score_raised"} =>
        /\ pc = "score_returned"
        /\ exc = "none"
        /\ scores.K_score = IF KUsable THEN Repaired.K_score ELSE 0
        /\ scores.BB_score = IF BBUsable THEN Repaired.BB_score ELSE 0
        /\ scores.WHIP_score = IF WHIPUsable THEN Repaired.WHIP_score ELSE 0
        /\ scores.ERA_score = IF ERAUsable THEN Repaired.ERA_score ELSE 0

\* The threshold table on the decimals as written: rates in tenths of a
\* percent against the league rate, splits in hundredths.
TableK(diff) == IF diff >= 50 THEN 2 ELSE IF diff >= 0 THEN 1
                ELSE IF diff >= -50 THEN -1 ELSE -2
TableBB(diff) == IF diff <= -20 THEN 2 ELSE IF diff <= 0 THEN 1
                 ELSE IF diff <= 20 THEN -1 ELSE -2
TableWHIP(w) == IF w < 100 THEN 2 ELSE IF w < 110 THEN 1
                ELSE IF w < 125 THEN -1 ELSE -2
TableERA(e) == IF e < 300 THEN 2 ELSE IF e < 350 THEN 1
               ELSE IF e < 450 THEN -1 ELSE -2

AllUsable == KUsable /\ BBUsable /\ WHIPUsable /\ ERAUsable

\* C6: on valid numbers every metric gets the first matching row of the
\* threshold table, also exactly on a boundary, and total_score is the sum
\* of the four scores, between -8 and 8.
C6_ThresholdTable ==
    (pc = "score_returned" /\ AllUsable) =>
        /\ scores.K_score = TableK(year_stats["K%"].n - year_stats["MLB_K%"].n)
        /\ scores.BB_score = TableBB(year_stats["BB%"].n - year_stats["MLB_BB%"].n)
        /\ scores.WHIP_score = TableWHIP(inning_splits["1st_Inning_WHIP"].n)
        /\ scores.ERA_score = TableERA(inning_splits["1st_Inning_ERA"].n)
        /\ scores.total_score = scores.K_score + scores.BB_score
                                + scores.WHIP_score + scores.ERA_score
        /\ scores.total_score \in -8..8

\* The run percentage as stated: 50 - 5t for t > 0, else 50 + 5|t|, clamped.
StatedRunPercentage(t) ==
    LET raw == IF t > 0 THEN 50 - 5 * t ELSE 50 + 5 * (IF t < 0 THEN -t ELSE t)
    IN  IF raw < 10 THEN 10 ELSE IF raw > 90 THEN 90 ELSE raw

\* C7: in every ScoreSet returned, first_inning_run_percentage is the
\* stated formula of total_score clamped to [10, 90]; it lies in [10, 90],
\* is 50 when total_score is 0 (so when all four metrics are unavailable),
\* and a larger total never has a larger percentage.
C7_RunPercentageClamped ==
    pc = "score_returned" =>
        /\ scores.first_inning_run_percentage = StatedRunPercentage(scores.total_score)
        /\ scores.first_inning_run_percentage \in 10..90
        /\ scores.total_score = 0 => scores.first_inning_run_percentage = 50
        /\ ~(KUsable \/ BBUsable \/ WHIPUsable \/ ERAUsable) =>
              scores.total_score = 0 /\ scores.first_inning_run_percentage = 50
        /\ \A larger \in scores.total_score..8 :
              first_inning_run_percentage(larger)
                  <= scores.first_inning_run_percentage

\* The weakest pitcher: total -8, and the percentage is clamped from 90 up.
C7_Witness ==
    /\ pc = "score_returned"
    /\ scores.total_score = -8
    /\ scores.first_inning_run_percentage = 90

\* ---- calculate_combined_probability -------------------------------------

IsAnalysis(p) == p # None /\ "scores" \in DOMAIN p
TwoAnalyses ==
    /\ Len(pitcher_data_for_game) = 2
    /\ IsAnalysis(pitcher_data_for_game[1])
    /\ IsAnalysis(pitcher_data_for_game[2])

\* The combined probability as stated, in tenths of a percent.
StatedCombined(s) ==
    LET raw == IF s > 0 THEN 400 - 25 * s ELSE 400 + 25 * (IF s < 0 THEN -s ELSE s)
    IN  IF raw < 50 THEN 50 ELSE IF raw > 950 THEN 950 ELSE raw

\* C8: calculate_combined_probability returns a number exactly when it is
\* given two valid analyses and None otherwise, never raising; the number
\* is 40 - 2.5(a+b) for a+b > 0, else 40 + 2.5|a+b|, clamped to [5, 95], so
\* within [5, 95], and the same for the two pitchers in the other order.
C8_CombinedProbability ==
    pc = "combine_returned" =>
        /\ exc = "none"
        /\ (yrfi_prob # None) <=> TwoAnalyses
        /\ TwoAnalyses =>
              /\ yrfi_prob.tenths =
                    StatedCombined(pitcher_data_for_game[1].scores.total_score
                                   + pitcher_data_for_game[2].scores.total_score)
              /\ yrfi_prob.tenths \in 50..950
              /\ calculate_combined_probability(
                    <<pitcher_data_for_game[2], pitcher_data_for_game[1]>>) = yrfi_prob

\* Two of the strongest pitchers: 40 - 2.5 * 16 = 0 is clamped to 5.
C8_Witness ==
    /\ pc = "combine_returned"
    /\ TwoAnalyses
    /\ pitcher_data_for_game[1].scores.total_score = 8
    /\ pitcher_data_for_game[2].scores.total_score = 8
    /\ yrfi_prob = Float(50)

\* ---- kelly_bet and the two flows ----------------------------------------

InKelly == kelly # None
Zero == QInt(0)
ZeroOddsTyped ==
    InKelly /\ (kelly.american_odds_yrfi = Zero \/ kelly.american_odds_nrfi = Zero)
Recommended == Emitted("rec_yrfi") \/ Emitted("rec_nrfi")

\* C2: American odds of 0, for YRFI or for NRFI, are refused as invalid
\* input before the decimal odds and the Kelly fraction are evaluated: the
\* call ends there with the invalid-input message and nothing is divided
\* by zero.
C2_ZeroOddsRejected ==
    ZeroOddsTyped =>
        /\ exc # "ZeroDivisionError"
        /\ pc = "kelly_done"
        /\ out[Len(out)].ev \in {"invalid_yrfi_odds", "invalid_nrfi_odds"}

\* Input that is not valid at its prompt: odds or a bankroll float()
\* refuses, and odds of 0.
InvalidTyped ==
    \/ Emitted("invalid_yrfi_odds") \/ Emitted("invalid_bankroll")
    \/ Emitted("invalid_nrfi_odds")
    \/ ZeroOddsTyped
EvenList == all_urls # <<>> /\ Len(all_urls) % 2 = 0

\* C3: invalid odds or bankroll end only the kelly_bet they are typed in,
\* without a recommendation, and never the run: nothing is raised, and when
\* analyze_multiple_games_sequentially is over every game of the list has
\* been analysed.
C3_InvalidInputEndsOnlySizing ==
    /\ InvalidTyped => exc = "none" /\ pc # "crashed" /\ ~Recommended
    /\ (mode = "multi" /\ EvenList /\ pc \in {"exit", "crashed"}) =>
          analysed = all_urls

Resolved(p) == p # None
BothResolved == Resolved(pitcher1) /\ Resolved(pitcher2)
OneResolved == Resolved(pitcher1) # Resolved(pitcher2)
\* The game's report has been printed.
Reported ==
    \/ pc \in {"multi_kelly_choice", "multi_end_game"}
    \/ InKelly
    \/ pc \in {"exit", "crashed"} /\ Len(analysed) >= 2

StatedDecimal(o) == IF o > 0 THEN Q(100 + o, 100) ELSE Q(100 - o, -o)
StatedRatio(a, b) == Q(a.num * b.den, a.den * b.num)
StatedFraction(american_odds, p) ==
    StatedRatio(QSub(QMul(StatedDecimal(american_odds.num), Q(p, 1000)), QInt(1)),
                QSub(StatedDecimal(american_odds.num), QInt(1)))

\* C5: NRFI is only evaluated after the YRFI fraction was computed and
\* found <= 0; its fraction is the same conversion and formula on the NRFI
\* odds with probability 100 - yrfi_probability_percent; a side is
\* recommended only with a fraction > 0 and the bet is fraction x bankroll;
\* with both fractions <= 0 "no bet" is reported; at most one side is
\* recommended in a call.
C5_NrfiOnlyAfterYrfi ==
    InKelly =>
        /\ (kelly.nrfi_choice # "" \/ kelly.american_odds_nrfi # None
            \/ pc \in {"kelly_nrfi_choice", "kelly_nrfi_odds"}) =>
              /\ kelly.kelly_fraction_yrfi # None
              /\ QLe(kelly.kelly_fraction_yrfi, Zero)
        /\ kelly.kelly_fraction_yrfi # None =>
              kelly.kelly_fraction_yrfi =
                  StatedFraction(kelly.american_odds_yrfi,
                                 kelly.yrfi_probability_percent.tenths)
        /\ kelly.kelly_fraction_nrfi # None =>
              kelly.kelly_fraction_nrfi =
                  StatedFraction(kelly.american_odds_nrfi,
                                 1000 - kelly.yrfi_probability_percent.tenths)
        /\ Emitted("rec_yrfi") =>
              /\ QLt(Zero, kelly.kelly_fraction_yrfi)
              /\ kelly.bet_amount_yrfi = QMul(kelly.kelly_fraction_yrfi, kelly.bankroll)
        /\ Emitted("rec_nrfi") =>
              /\ QLt(Zero, kelly.kelly_fraction_nrfi)
              /\ kelly.bet_amount_nrfi = QMul(kelly.kelly_fraction_nrfi, kelly.bankroll)
        /\ (kelly.kelly_fraction_yrfi # None /\ kelly.kelly_fraction_nrfi # None
            /\ QLe(kelly.kelly_fraction_yrfi, Zero)
            /\ QLe(kelly.kelly_fraction_nrfi, Zero)) =>
              Emitted("no_bet") /\ ~Recommended
        /\ Count("rec_yrfi") + Count("rec_nrfi") <= 1

\* 30% at -150 has no edge on YRFI (fraction -3/4); NRFI at +100 has one:
\* (2 * 0.7 - 1) / 1 = 2/5 of a bankroll of 100 is 40.
C5_Witness ==
    /\ InKelly /\ pc = "kelly_done"
    /\ kelly.yrfi_probability_percent = Float(300)
    /\ kelly.american_odds_yrfi = QInt(-150)
    /\ kelly.kelly_fraction_yrfi = Q(-3, 4)
    /\ kelly.american_odds_nrfi = QInt(100)
    /\ kelly.kelly_fraction_nrfi = Q(2, 5)
    /\ kelly.bet_amount_nrfi = QInt(40)
    /\ Emitted("rec_nrfi")

C10_FractionWithinModelProbability ==
    InKelly =>
        /\ kelly.yrfi_probability_percent.tenths \in 50..950
        /\ kelly.bet_amount_yrfi # None =>
              /\ QLt(Zero, kelly.kelly_fraction_yrfi)
              /\ QLe(kelly.kelly_fraction_yrfi,
                     Q(kelly.yrfi_probability_percent.tenths, 1000))
              /\ QLt(kelly.kelly_fraction_yrfi, QInt(1))
              /\ QLe(Zero, kelly.bankroll) =>
                    QLe(kelly.bet_amount_yrfi, kelly.bankroll)
        /\ kelly.bet_amount_nrfi # None =>
              /\ QLt(Zero, kelly.kelly_fraction_nrfi)
              /\ QLe(kelly.kelly_fraction_nrfi,
                     Q(1000 - kelly.yrfi_probability_percent.tenths, 1000))
              /\ QLt(kelly.kelly_fraction_nrfi, QInt(1))
              /\ QLe(Zero, kelly.bankroll) =>
                    QLe(kelly.bet_amount_nrfi, kelly.bankroll)

\* 80% at +1000: the fraction (11 * 0.8 - 1) / 10 = 39/50 is just below the
\* model probability, the bet 78 of a bankroll of 100.
C10_Witness ==
    /\ InKelly /\ Emitted("rec_yrfi")
    /\ kelly.yrfi_probability_percent = Float(800)
    /\ kelly.american_odds_yrfi = QInt(1000)
    /\ kelly.kelly_fraction_yrfi = Q(39, 50)
    /\ kelly.bankroll = QInt(100)
    /\ kelly.bet_amount_yrfi = QInt(78)

=============================================================================
